---- MODULE Spec2Model ----
(***************************************************************************)
(* Model of scripts/extract_region.py: the region extraction pipeline      *)
(* (main), the math-likeness classifier (contains_math_like), whitespace   *)
(* normalization (normalize_text), the remote OCR client (ocr_mathpix) and *)
(* the local OCR fallback (ocr_latexocr).                                  *)
(*                                                                         *)
(* Strings are sequences of characters; a character is named by a TLA+     *)
(* string ("a", "+", "alpha" for U+03B1, "nl" for a line feed).  Messages  *)
(* built with f-strings are sequences of fragments, so that "the message   *)
(* contains X" is "X is one of its fragments".                             *)
(***************************************************************************)
EXTENDS Integers, Sequences, FiniteSets, TLC

\* ---------------------------------------------------------------- bounds
\* Longest text-layer content of a region (characters).
MaxTextLen == 4
\* Largest page count of a document.
MaxPages == 2
\* Longest text handed to the classifier on its own.
MaxClsLen == 7
\* Longest stdout / stderr of a local OCR binary.
MaxOutLen == 3

\* ------------------------------------------------------------ characters
\* A part of math_chars (line 20-21): operators, and the Greek letters.
\* The ASCII hyphen "-" is not in the set (the set holds U+2212).
math_chars == {"+", "=", "^", "_", "(", ")", "$", "alpha", "pi"}

\* str.isalnum(): letters and digits, the Greek letters included.
isalnum == {"a", "b", "x", "y", "1", "alpha", "pi"}

\* What str.split() with no argument splits on.
Whitespace == {" ", "nl"}

\* The characters the text layer of a region is drawn from.
TextChars == {"a", "+", " ", "nl"}

\* The characters a text handed to the classifier is drawn from.
ClsChars == {"a", "+", "alpha", "-"}

\* The characters a local OCR binary writes.
OutChars == {"x", "y", " ", "nl"}

\* All sequences over S of length at most n.
SeqsUpTo(S, n) == UNION {[1..k -> S] : k \in 0..n}

\* Number of elements of s that are in S (sum(1 for c in text if c in S)).
RECURSIVE CountIn(_, _)
CountIn(s, S) ==
    IF s = <<>> THEN 0
    ELSE (IF Head(s) \in S THEN 1 ELSE 0) + CountIn(Tail(s), S)

Max(a, b) == IF a >= b THEN a ELSE b

\* ------------------------------------------------------- normalize_text
\* t.split(): the maximal runs of non-whitespace characters, in order.
RECURSIVE split(_, _, _)
split(t, words, cur) ==
    IF t = <<>> THEN (IF cur = <<>> THEN words ELSE Append(words, cur))
    ELSE IF Head(t) \in Whitespace
         THEN split(Tail(t), IF cur = <<>> THEN words ELSE Append(words, cur), <<>>)
         ELSE split(Tail(t), words, Append(cur, Head(t)))

\* sep.join(words)
RECURSIVE join(_, _)
join(sep, words) ==
    IF words = <<>> THEN <<>>
    ELSE IF Len(words) = 1 THEN words[1]
    ELSE words[1] \o sep \o join(sep, Tail(words))

normalize_text(t) == join(<<" ">>, split(t, <<>>, <<>>))

\* --------------------------------------------------- contains_math_like
\* A faulty variant: the ratio test without the "alnum and" guard of line 24.
contains_math_like_no_alnum(text) ==
    IF text = <<>> THEN TRUE
    ELSE LET symbols == CountIn(text, math_chars)
         IN  symbols >= 3 \/ 100 * symbols > 15 * Max(1, Len(text))

\* The truth value of the returned object.  symbols / max(1, len) > 0.15 is
\* a float comparison; for integer operands it agrees with the exact
\* comparison 100 * symbols > 15 * max(1, len) (the only ratios equal to
\* 3/20 have symbols >= 3, and 3/20 rounds to the double 0.15 itself).
contains_math_like(text) ==
    IF text = <<>> THEN TRUE
    ELSE LET symbols == CountIn(text, math_chars)
             alnum == CountIn(text, isalnum)
         IN  symbols >= 3
             \/ (alnum # 0 /\ 100 * symbols > 15 * Max(1, Len(text)))

\* -------------------------------------------------------------- results
\* {"ok": True, "text": ..., "latex": ..., "source": ...}
Ok(text, latex, source) ==
    [ok |-> TRUE, text |-> text, latex |-> latex, source |-> source]

\* {"ok": False, "error": ...}
Fail(error) == [ok |-> FALSE, error |-> error]

\* Whether message e (a sequence of fragments) contains fragment m.
Mentions(e, m) == \E i \in 1..Len(e) : e[i] = m

\* Whether string s contains the substring sub ('sub' in s).
Contains(sub, s) ==
    \E i \in 1..(Len(s) - Len(sub) + 1) : SubSeq(s, i, i + Len(sub) - 1) = sub

\* os.getenv: the variable is unset (None), set to the empty string, or set.
None == "<unset>"
EnvValues == {None, "", "id"}

\* ---------------------------------------------------------------- state
VARIABLES
    pc,          \* position of the process: import, main, extract, decide, ocr, emit, done;
                 \* "lib" when the file is imported and main is not run (line 186)
    app_id,      \* environment: MATHPIX_APP_ID
    app_key,     \* environment: MATHPIX_APP_KEY
    pageCount,   \* len(doc) of the document at pdf_path
    args,        \* <<>> before parsing, then <<page_number>>
    extracted,   \* <<>> before extraction, then <<what extract_text returned>>
    raw,         \* main's raw: the normalized text-layer content
    png,         \* <<>>, then <<the rendered bitmap>>
    res,         \* <<>>, then <<what ocr_mathpix returned>>
    out,         \* the JSON objects printed on standard output, in order
    calls,       \* the pipeline functions main has invoked, in order
    ctext,       \* classifier run on its own: the argument
    cresult,     \* classifier run on its own: <<>>, then <<truth value returned>>
    lpc,         \* ocr_latexocr: idle, try, pix2tex, finally, returned, raised
    tmp_exists,  \* ocr_latexocr: whether the temporary file is on disk
    lret,        \* ocr_latexocr: <<>>, then <<the value the return statement gave>>
    unlinked     \* ocr_latexocr: the outcome of each os.unlink(tmp) call made, in order

mainVars == <<pc, app_id, app_key, pageCount, args, extracted, raw, png, res, out, calls>>
clsVars == <<ctext, cresult>>
latexVars == <<lpc, tmp_exists, lret, unlinked>>
vars == <<mainVars, clsVars, latexVars>>

\* ------------------------------------------------------------------ main
\* A faulty variant of line 160: the classifier's answer taken the wrong way round.
IsSmartInverted(rawv) == rawv # <<>> /\ contains_math_like(rawv)

\* A faulty variant of line 160: the text layer accepted without any test.
IsSmartAlways(rawv) == TRUE

\* Line 160: the text layer is accepted as it is.
IsSmart(rawv) == rawv # <<>> /\ ~contains_math_like(rawv)

\* A faulty variant of line 161: the accepted text layer tagged as a fallback.
SmartResultMislabelled(rawv) == Ok(rawv, <<>>, "text-fallback")

\* Line 161.
SmartResult(rawv) == Ok(rawv, <<>>, "smart")

\* Lines 26-31: page.get_text(...) gave t; a page outside [1, len(doc)] gives "".
extract_text(count, page_number, t) ==
    IF page_number < 1 \/ page_number > count THEN <<>> ELSE t

\* Line 35, doc[page_number - 1]: Document.__getitem__ raises IndexError for an
\* index >= len(doc) and takes a negative index from the end.
PageInDocument(count, page_number) == page_number - 1 < count

LoadedPage(count, page_number) ==
    IF page_number - 1 < 0 THEN page_number - 1 + count ELSE page_number - 1

\* Lines 33-50: the bitmap of the loaded page at scale 2.
render_region_png(count, page_number) ==
    [page |-> LoadedPage(count, page_number), scale |-> 2]

\* Line 60.
CredsMissing(id, key) == id \in {None, ""} \/ key \in {None, ""}

\* Lines 89-116: the result built from a 200 response with JSON body data.
MathpixSuccess(data) ==
    LET text == data.text
        latex_from_blocks == join(<<"nl", "nl">>, data.latex_styled)
        latex_direct ==
            IF data.latex_simplified # <<>> THEN data.latex_simplified ELSE data.latex
        latex0 == IF latex_from_blocks # <<>> THEN latex_from_blocks ELSE latex_direct
        latex ==
            IF latex0 = <<>> /\ text # <<>>
               /\ (Contains(<<"\\", "(">>, text) \/ Contains(<<"\\", "[">>, text)
                   \/ Contains(<<"$", "$">>, text))
            THEN text ELSE latex0
    IN  Ok(text, latex, "ocr-mathpix")

\* The JSON bodies of a 200 response.
MathpixData ==
    [text : {<<>>, <<"x">>, <<" ", "x", " ", " ", "y">>, <<"\\", "(", "x", "\\", ")">>},
     latex_styled : {<<>>, << <<"L">> >>, << <<"L">>, <<"M">> >>},
     latex_simplified : {<<>>, <<"S">>},
     latex : {<<>>, <<"D">>}]

\* What requests.post / r.json() can do: raise, answer with a non-200 status,
\* or answer 200 with a JSON body.
RemoteOutcomes ==
    {[kind |-> "exception", status |-> "", data |-> <<>>],
     [kind |-> "http", status |-> "500", data |-> <<>>]}
    \cup {[kind |-> "http", status |-> "200", data |-> <<d>>] : d \in MathpixData}

\* Lines 52-119.
ocr_mathpix(id, key, o) ==
    IF CredsMissing(id, key) THEN Fail(<<"MathPix credentials missing">>)
    ELSE IF o.kind = "exception" THEN Fail(<<"request failed">>)
    ELSE IF o.status # "200" THEN Fail(<<"MathPix HTTP ", o.status, ": ", "body">>)
    ELSE MathpixSuccess(o.data[1])

\* A faulty variant of lines 169-177: the text layer is not fallen back on.
FallbackNoText(rawv, resv) == Fail(<<"MathPix failed: ">> \o resv.error)

\* A faulty variant of line 176: the remote client's message is dropped.
FallbackUnknownError(rawv, resv) ==
    IF rawv # <<>> THEN Ok(rawv, <<>>, "text-fallback")
    ELSE Fail(<<"MathPix failed: ", "Unknown error">>)

\* Lines 169-177: the remote client failed.
FallbackResult(rawv, resv) ==
    IF rawv # <<>> THEN Ok(rawv, <<>>, "text-fallback")
    ELSE Fail(<<"MathPix failed: ">> \o resv.error)

\* Lines 180-182: the remote client succeeded.
SuccessResult(resv) == Ok(normalize_text(resv.text), resv.latex, resv.source)

\* A faulty variant of lines 183-184: the handler swallows the exception.
RaiseSilent(e) ==
    /\ out' = out
    /\ pc' = "done"

\* Lines 183-184: an exception e reaches the handler of main.
Raise(e) ==
    /\ out' = Append(out, Fail(<<e>>))
    /\ pc' = "done"

Init ==
    /\ pc = "import"
    /\ app_id \in EnvValues
    /\ app_key \in EnvValues
    /\ pageCount \in 1..MaxPages
    /\ args = <<>> /\ extracted = <<>> /\ raw = <<>>
    /\ png = <<>> /\ res = <<>> /\ out = <<>> /\ calls = <<>>
    /\ ctext = <<>> /\ cresult = <<>>
    /\ lpc = "idle" /\ tmp_exists = FALSE /\ lret = <<>> /\ unlinked = <<>>

\* Line 9: import fitz succeeds; the module body runs on to main().
ImportOk ==
    /\ pc = "import"
    /\ pc' = "main"
    /\ UNCHANGED <<app_id, app_key, pageCount, args, extracted, raw, png, res, out, calls>>
    /\ UNCHANGED <<clsVars, latexVars>>

\* Lines 10-12: import fitz raises; one failure object, then sys.exit(0).
ImportFail ==
    /\ pc = "import"
    /\ out' = Append(out, Fail(<<"PyMuPDF missing: ", "import error">>))
    /\ pc' = "done"
    /\ UNCHANGED <<app_id, app_key, pageCount, args, extracted, raw, png, res, calls>>
    /\ UNCHANGED <<clsVars, latexVars>>

\* Lines 147-157: the arguments parse; the page number is any integer.
ParseArgs ==
    /\ pc = "main"
    /\ \E page_number \in 0..(MaxPages + 1) : args' = <<page_number>>
    /\ pc' = "extract"
    /\ UNCHANGED <<app_id, app_key, pageCount, extracted, raw, png, res, out, calls>>
    /\ UNCHANGED <<clsVars, latexVars>>

\* Lines 147-157 raise (bad JSON, a missing key, a non-numeric value).
ParseArgsRaise ==
    /\ pc = "main"
    /\ Raise("bad arguments")
    /\ UNCHANGED <<app_id, app_key, pageCount, args, extracted, raw, png, res, calls>>
    /\ UNCHANGED <<clsVars, latexVars>>

\* Line 159: raw = normalize_text(extract_text(...)).
ExtractText ==
    /\ pc = "extract"
    /\ calls' = Append(calls, "extract_text")
    /\ \E t \in SeqsUpTo(TextChars, MaxTextLen) :
          /\ extracted' = <<extract_text(pageCount, args[1], t)>>
          /\ raw' = normalize_text(extract_text(pageCount, args[1], t))
    /\ pc' = "decide"
    /\ UNCHANGED <<app_id, app_key, pageCount, args, png, res, out>>
    /\ UNCHANGED <<clsVars, latexVars>>

\* Line 27: fitz.open raises (no such file, not a PDF).
ExtractRaise ==
    /\ pc = "extract"
    /\ calls' = Append(calls, "extract_text")
    /\ Raise("cannot open document")
    /\ UNCHANGED <<app_id, app_key, pageCount, args, extracted, raw, png, res>>
    /\ UNCHANGED <<clsVars, latexVars>>

\* Lines 160-162.
EmitSmart ==
    /\ pc = "decide"
    /\ IsSmart(raw)
    /\ out' = Append(out, SmartResult(raw))
    /\ pc' = "done"
    /\ UNCHANGED <<app_id, app_key, pageCount, args, extracted, raw, png, res, calls>>
    /\ UNCHANGED <<clsVars, latexVars>>

\* Line 165, the page is in the document: the region is rendered.
RenderRegion ==
    /\ pc = "decide"
    /\ ~IsSmart(raw)
    /\ PageInDocument(pageCount, args[1])
    /\ calls' = Append(calls, "render_region_png")
    /\ png' = <<render_region_png(pageCount, args[1])>>
    /\ pc' = "ocr"
    /\ UNCHANGED <<app_id, app_key, pageCount, args, extracted, raw, res, out>>
    /\ UNCHANGED <<clsVars, latexVars>>

\* Line 165, line 35 raises IndexError: the page is not in the document.
RenderPageError ==
    /\ pc = "decide"
    /\ ~IsSmart(raw)
    /\ ~PageInDocument(pageCount, args[1])
    /\ calls' = Append(calls, "render_region_png")
    /\ Raise("page not in document")
    /\ UNCHANGED <<app_id, app_key, pageCount, args, extracted, raw, png, res>>
    /\ UNCHANGED <<clsVars, latexVars>>

\* Line 165, lines 34-38 raise for another reason (the file is gone, the
\* clip is empty, the bitmap cannot be made).
RenderRaise ==
    /\ pc = "decide"
    /\ ~IsSmart(raw)
    /\ PageInDocument(pageCount, args[1])
    /\ calls' = Append(calls, "render_region_png")
    /\ Raise("render error")
    /\ UNCHANGED <<app_id, app_key, pageCount, args, extracted, raw, png, res>>
    /\ UNCHANGED <<clsVars, latexVars>>

\* Line 166.
OcrMathpix ==
    /\ pc = "ocr"
    /\ calls' = Append(calls, "ocr_mathpix")
    /\ \E o \in RemoteOutcomes : res' = <<ocr_mathpix(app_id, app_key, o)>>
    /\ pc' = "emit"
    /\ UNCHANGED <<app_id, app_key, pageCount, args, extracted, raw, png, out>>
    /\ UNCHANGED <<clsVars, latexVars>>

\* Lines 169-182.
EmitResult ==
    /\ pc = "emit"
    /\ out' = Append(out, IF ~res[1].ok THEN FallbackResult(raw, res[1])
                          ELSE SuccessResult(res[1]))
    /\ pc' = "done"
    /\ UNCHANGED <<app_id, app_key, pageCount, args, extracted, raw, png, res, calls>>
    /\ UNCHANGED <<clsVars, latexVars>>

Next ==
    \/ ImportOk \/ ImportFail
    \/ ParseArgs \/ ParseArgsRaise
    \/ ExtractText \/ ExtractRaise
    \/ EmitSmart
    \/ RenderRegion \/ RenderPageError \/ RenderRaise
    \/ OcrMathpix
    \/ EmitResult

Spec == Init /\ [][Next]_vars

\* The interpreter runs the process to its end: no step is withheld for ever.
FairSpec == Spec /\ WF_vars(Next)

\* ------------------------------------------- contains_math_like, alone
\* The file is imported as a module; a caller holds a text to classify.
ClsInit ==
    /\ pc = "lib"
    /\ app_id = None /\ app_key = None /\ pageCount = 1
    /\ args = <<>> /\ extracted = <<>> /\ raw = <<>>
    /\ png = <<>> /\ res = <<>> /\ out = <<>> /\ calls = <<>>
    /\ ctext \in SeqsUpTo(ClsChars, MaxClsLen)
    /\ cresult = <<>>
    /\ lpc = "idle" /\ tmp_exists = FALSE /\ lret = <<>> /\ unlinked = <<>>

\* Lines 17-24.
Classify ==
    /\ pc = "lib"
    /\ cresult = <<>>
    /\ cresult' = <<contains_math_like(ctext)>>
    /\ UNCHANGED <<mainVars, ctext, latexVars>>

ClsNext == Classify

ClsSpec == ClsInit /\ [][ClsNext]_vars

\* ------------------------------------------------------- ocr_latexocr
\* str.strip()
RECURSIVE lstrip(_)
lstrip(s) ==
    IF s # <<>> /\ Head(s) \in Whitespace THEN lstrip(Tail(s)) ELSE s

RECURSIVE rstrip(_)
rstrip(s) ==
    IF s # <<>> /\ s[Len(s)] \in Whitespace THEN rstrip(SubSeq(s, 1, Len(s) - 1)) ELSE s

strip(s) == rstrip(lstrip(s))

\* What subprocess.run returns: the binary exits 0 having written stdout, or
\* exits non-zero having written stderr.
ProcOutcomes ==
    {[returncode |-> 0, stdout |-> o, stderr |-> <<>>] : o \in SeqsUpTo(OutChars, MaxOutLen)}
    \cup {[returncode |-> 1, stdout |-> <<>>, stderr |-> e] : e \in SeqsUpTo(OutChars, MaxOutLen)}

\* What subprocess.run raises: the binary is not installed, or it timed out.
ProcErrors == {"No such file or directory", "timed out"}

\* Line 131 / line 135.
LatexSuccess(proc, source) == Ok(<<>>, strip(proc.stdout), source)

\* Line 136.
LatexFailure(proc) ==
    Fail(IF strip(proc.stderr) # <<>> THEN strip(proc.stderr)
         ELSE <<"latexocr/pix2tex failed">>)

\* The file is imported as a module; a caller is about to call ocr_latexocr.
LatexInit ==
    /\ pc = "lib"
    /\ app_id = None /\ app_key = None /\ pageCount = 1
    /\ args = <<>> /\ extracted = <<>> /\ raw = <<>>
    /\ png = <<>> /\ res = <<>> /\ out = <<>> /\ calls = <<>>
    /\ ctext = <<>> /\ cresult = <<>>
    /\ lpc = "idle" /\ tmp_exists = FALSE /\ lret = <<>> /\ unlinked = <<>>

\* Lines 124-126: the temporary file is created, written and closed.
CreateTemp ==
    /\ lpc = "idle"
    /\ tmp_exists' = TRUE
    /\ lpc' = "try"
    /\ UNCHANGED <<mainVars, clsVars, lret, unlinked>>

\* Line 124 raises: no file is made, the exception leaves the function.
CreateTempRaise ==
    /\ lpc = "idle"
    /\ lpc' = "raised"
    /\ UNCHANGED <<mainVars, clsVars, tmp_exists, lret, unlinked>>

\* Line 125 raises (the disk is full): the file is made and closed by the
\* with statement, and the exception leaves the function before the try.
WriteTempRaise ==
    /\ lpc = "idle"
    /\ tmp_exists' = TRUE
    /\ lpc' = "raised"
    /\ UNCHANGED <<mainVars, clsVars, lret, unlinked>>

\* Lines 129-131: latexocr ran.
RunLatexocr ==
    /\ lpc = "try"
    /\ \E proc \in ProcOutcomes :
          IF proc.returncode = 0
          THEN /\ lret' = <<LatexSuccess(proc, "ocr-latexocr")>>
               /\ lpc' = "finally"
          ELSE /\ lret' = lret
               /\ lpc' = "pix2tex"
    /\ UNCHANGED <<mainVars, clsVars, tmp_exists, unlinked>>

\* Line 129 raises; lines 137-138.
RunLatexocrRaise ==
    /\ lpc = "try"
    /\ \E e \in ProcErrors : lret' = <<Fail(<<e>>)>>
    /\ lpc' = "finally"
    /\ UNCHANGED <<mainVars, clsVars, tmp_exists, unlinked>>

\* Lines 133-136: pix2tex ran.
RunPix2tex ==
    /\ lpc = "pix2tex"
    /\ \E proc \in ProcOutcomes :
          lret' = <<IF proc.returncode = 0 THEN LatexSuccess(proc, "ocr-pix2tex")
                    ELSE LatexFailure(proc)>>
    /\ lpc' = "finally"
    /\ UNCHANGED <<mainVars, clsVars, tmp_exists, unlinked>>

\* Line 133 raises; lines 137-138.
RunPix2texRaise ==
    /\ lpc = "pix2tex"
    /\ \E e \in ProcErrors : lret' = <<Fail(<<e>>)>>
    /\ lpc' = "finally"
    /\ UNCHANGED <<mainVars, clsVars, tmp_exists, unlinked>>

\* A faulty variant of lines 139-143: the function returns without the unlink.
UnlinkSkipped ==
    /\ lpc = "finally"
    /\ lpc' = "returned"
    /\ UNCHANGED <<mainVars, clsVars, tmp_exists, lret, unlinked>>

\* Lines 139-141: os.unlink(tmp) removes the file; the function returns.
Unlink ==
    /\ lpc = "finally"
    /\ unlinked' = Append(unlinked, "removed")
    /\ tmp_exists' = FALSE
    /\ lpc' = "returned"
    /\ UNCHANGED <<mainVars, clsVars, lret>>

\* Lines 139-143: os.unlink(tmp) raises (the file is held open, the
\* directory is read-only); the handler passes and the function returns.
UnlinkRaise ==
    /\ lpc = "finally"
    /\ unlinked' = Append(unlinked, "raised")
    /\ tmp_exists' = tmp_exists
    /\ lpc' = "returned"
    /\ UNCHANGED <<mainVars, clsVars, lret>>

LatexNext ==
    \/ CreateTemp \/ CreateTempRaise \/ WriteTempRaise
    \/ RunLatexocr \/ RunLatexocrRaise
    \/ RunPix2tex \/ RunPix2texRaise
    \/ Unlink \/ UnlinkRaise

LatexSpec == LatexInit /\ [][LatexNext]_vars

\* ================================================================ claims
\* MATHPIX_APP_ID or MATHPIX_APP_KEY is absent from the environment.
CredsAbsent == app_id = None \/ app_key = None

\* The page number main parsed lies outside [1, pageCount].
PageInvalid == args # <<>> /\ (args[1] < 1 \/ args[1] > pageCount)

\* The rasterizer failed for a reason other than the page number.
RenderIoFailed == out = <<Fail(<<"render error">>)>>

\* The number of positions of s holding an element of S.
Occurrences(s, S) == Cardinality({i \in DOMAIN s : s[i] \in S})

\* A printed object has one of the two shapes of the output interface.
WellFormed(r) ==
    \/ DOMAIN r = {"ok", "text", "latex", "source"} /\ r.ok = TRUE
    \/ DOMAIN r = {"ok", "error"} /\ r.ok = FALSE

\* C1: when the text layer of the region, once normalized, is non-empty and not
\* math-like (in particular when it holds no math symbol at all), main prints
\* exactly {ok: true, text: the normalized text, latex: "", source: "smart"},
\* whatever MATHPIX_APP_ID and MATHPIX_APP_KEY are.
C1_SmartForProse ==
    /\ (pc = "done" /\ extracted # <<>>
          /\ normalize_text(extracted[1]) # <<>>
          /\ ~contains_math_like(normalize_text(extracted[1])))
       => out = <<Ok(normalize_text(extracted[1]), <<>>, "smart")>>
    /\ (pc = "done" /\ extracted # <<>>
          /\ normalize_text(extracted[1]) # <<>>
          /\ Occurrences(extracted[1], math_chars) = 0)
       => (Len(out) = 1 /\ out[1].ok /\ out[1].source = "smart" /\ out[1].latex = <<>>)

\* C1, its case: prose whose whitespace normalization changed it was printed
\* as smart while both credentials were set.
C1_Witness ==
    /\ pc = "done" /\ extracted # <<>>
    /\ extracted[1] # raw /\ raw # <<>> /\ ~contains_math_like(raw)
    /\ app_id = "id" /\ app_key = "id"
    /\ out = <<Ok(raw, <<>>, "smart")>>

\* C2 as stated: with a credential absent and a non-empty normalized text
\* layer (math-like or not), the result is ok: true with source "text-fallback".
C2_Original ==
    (pc = "done" /\ CredsAbsent /\ extracted # <<>> /\ raw # <<>>)
    => (Len(out) = 1 /\ out[1].ok /\ out[1].source = "text-fallback")

\* C2 amended: with a credential absent and a non-empty normalized text layer,
\* the result is the smart result when the text is not math-like, and when it
\* is math-like and the region was rasterized the result is
\* {ok: true, text: the normalized text, latex: "", source: "text-fallback"}.
C2_Amended ==
    (pc = "done" /\ CredsAbsent /\ extracted # <<>> /\ raw # <<>>)
    => IF ~contains_math_like(raw)
       THEN out = <<Ok(raw, <<>>, "smart")>>
       ELSE png # <<>> => out = <<Ok(raw, <<>>, "text-fallback")>>

\* C2, its case: math-like text, a credential absent, the remote client was
\* called and refused, and the text was printed as the fallback.
C2_Witness ==
    /\ pc = "done" /\ CredsAbsent /\ raw # <<>> /\ contains_math_like(raw)
    /\ res = <<Fail(<<"MathPix credentials missing">>)>>
    /\ out = <<Ok(raw, <<>>, "text-fallback")>>

\* C3 as stated, on the runs whose rasterizer meets no failure of its own: with
\* a credential absent and extract_text returning "" (for any page number, one
\* outside [1, pageCount] included), the result is ok: false and its error
\* mentions the missing credentials.
C3_Claim ==
    (pc = "done" /\ CredsAbsent /\ extracted = << <<>> >> /\ ~RenderIoFailed)
    => (Len(out) = 1 /\ ~out[1].ok
        /\ Mentions(out[1].error, "MathPix credentials missing"))

\* C4: every run ends, and ends having printed exactly one object of the
\* output interface; at no time have two been printed.
C4_ExactlyOneResult ==
    /\ <>(pc = "done")
    /\ [](Len(out) <= 1)
    /\ [](pc = "done" => (Len(out) = 1 /\ WellFormed(out[1])))

\* C4, its case: a run that went through the remote client ended with one object.
C4_Witness ==
    /\ pc = "done" /\ res # <<>> /\ Len(out) = 1 /\ WellFormed(out[1])

\* C5: when ocr_mathpix returned a failure (credentials missing, a non-200
\* status, an exception in the client), main prints the step-1 text as
\* text-fallback if it is non-empty, and otherwise ok: false with an error
\* that contains the client's error message.
C5_RemoteFailure ==
    (pc = "done" /\ res # <<>> /\ ~res[1].ok)
    => IF raw # <<>>
       THEN out = <<Ok(raw, <<>>, "text-fallback")>>
       ELSE /\ Len(out) = 1 /\ ~out[1].ok
            /\ Contains(res[1].error, out[1].error)

\* C5, its case: the service answered with a non-200 status for a region
\* without text, and the printed error carries the client's message.
C5_Witness ==
    /\ pc = "done" /\ raw = <<>>
    /\ res = <<Fail(<<"MathPix HTTP ", "500", ": ", "body">>)>>
    /\ out = <<Fail(<<"MathPix failed: ", "MathPix HTTP ", "500", ": ", "body">>)>>

\* C6: when the normalized text layer is empty, no printed result has source
\* "smart", whatever the rasterizer and the remote client do.
C6_EmptyNeverSmart ==
    (extracted # <<>> /\ raw = <<>>)
    => \A i \in 1..Len(out) : out[i].ok => out[i].source # "smart"

\* C6, its case: a text layer of whitespace alone normalized to the empty
\* string, and the run ended with a successful result.
C6_Witness ==
    /\ pc = "done" /\ extracted # <<>> /\ extracted[1] # <<>> /\ raw = <<>>
    /\ Len(out) = 1 /\ out[1].ok

\* C7: contains_math_like(text) is truthy exactly when text is empty, or text
\* holds at least 3 characters of the math symbol set, or text holds an
\* alphanumeric character and 100 * symbols > 15 * len(text).
C7_Classifier ==
    cresult # <<>>
    => (cresult[1] <=>
          \/ Len(ctext) = 0
          \/ Occurrences(ctext, math_chars) >= 3
          \/ /\ Occurrences(ctext, isalnum) >= 1
             /\ 100 * Occurrences(ctext, math_chars) > 15 * Len(ctext))

\* C7, its case: one symbol among six characters (ratio 1/6 > 0.15) was
\* classified math-like.
C7_Witness ==
    /\ cresult = <<TRUE>> /\ Len(ctext) = 6
    /\ Occurrences(ctext, math_chars) = 1 /\ Occurrences(ctext, {"a"}) = 5

\* C8 as stated: for a page number outside [1, pageCount], extract_text
\* returns "" and main goes on as for a valid page with an empty text layer:
\* the region is rasterized and the remote client called, and the result is
\* the remote client's or the one its failure gives for an empty text, never
\* an error of the page number itself.
C8_Claim ==
    (pc = "done" /\ PageInvalid /\ extracted # <<>>)
    => /\ extracted = << <<>> >>
       /\ \/ RenderIoFailed
          \/ /\ res # <<>>
             /\ out = <<IF res[1].ok THEN SuccessResult(res[1])
                        ELSE Fail(<<"MathPix failed: ">> \o res[1].error)>>

C10_CallOrder ==
    /\ \E n \in 0..3 : calls = SubSeq(<<"extract_text", "render_region_png", "ocr_mathpix">>, 1, n)
    /\ Mentions(calls, "render_region_png")
       => (extracted # <<>> /\ (raw = <<>> \/ contains_math_like(raw)))
    /\ Mentions(calls, "ocr_mathpix") => png # <<>>
    /\ lpc = "idle" /\ lret = <<>>
    /\ \A i \in 1..Len(out) :
          out[i].ok => out[i].source \notin {"ocr-latexocr", "ocr-pix2tex"}

\* C10, its case: math-like text went through the rasterizer and the remote
\* client, in that order, and the remote result was printed.
C10_Witness ==
    /\ pc = "done" /\ raw # <<>> /\ contains_math_like(raw)
    /\ calls = <<"extract_text", "render_region_png", "ocr_mathpix">>
    /\ Len(out) = 1 /\ out[1].ok /\ out[1].source = "ocr-mathpix"

====
